---------------------------- MODULE Spec2Model ----------------------------
(***************************************************************************)
(* Model of .opencode/plugin/single-source-of-truth.js: the variant-name   *)
(* classifier (shouldBlockPath), the unified-diff scanner                   *)
(* (parseNewFilesFromPatch) and the "tool.execute.before" hook with its     *)
(* reject helper.                                                           *)
(*                                                                         *)
(* A JavaScript string is a sequence of one-character strings.  A patch     *)
(* text is the sequence of its lines, i.e. the value of                     *)
(* patchText.split("\n"); a line is a record [kind, path] giving which of   *)
(* the scanner's anchored regular expressions it matches and, for a         *)
(* "+++ b/<path>" line, the captured path.                                  *)
(***************************************************************************)
EXTENDS Naturals, Sequences, FiniteSets

VARIABLES
    cPath, cPhase, cResult,          \* classifier run: argument, position, value returned
    sLines, sPhase, sOut,            \* scanner run: lines of patchText, position, returned Set
    tool, args, client,              \* hook invocation: input.tool, output.args, the plugin's client
    pc, newFiles, classified,        \* hook position, paths still to iterate, paths classified so far
    toasts, thrown, rej              \* showToast calls made, what the hook threw, pending reject call

cvars == <<cPath, cPhase, cResult>>
svars == <<sLines, sPhase, sOut>>
dvars == <<tool, args, client, pc, newFiles, classified, toasts, thrown, rej>>
vars == <<cPath, cPhase, cResult, sLines, sPhase, sOut,
          tool, args, client, pc, newFiles, classified, toasts, thrown, rej>>

Min(a, b) == IF a < b THEN a ELSE b

(***************************************************************************)
(* Characters                                                              *)
(***************************************************************************)
LowerSeq == <<"a", "b", "c", "d", "e", "f", "g", "h", "i", "j", "k", "l", "m", "n", "o", "p", "q", "r", "s", "t", "u", "v", "w", "x", "y", "z">>
UpperSeq == <<"A", "B", "C", "D", "E", "F", "G", "H", "I", "J", "K", "L", "M", "N", "O", "P", "Q", "R", "S", "T", "U", "V", "W", "X", "Y", "Z">>
LowerChars == {LowerSeq[i] : i \in 1..Len(LowerSeq)}
UpperChars == {UpperSeq[i] : i \in 1..Len(UpperSeq)}
DigitChars == {"0", "1", "2", "3", "4", "5", "6", "7", "8", "9"}

\* String.prototype.toLowerCase on one character
toLowerCase(c) ==
    IF c \in UpperChars
      THEN LowerSeq[CHOOSE i \in 1..Len(UpperSeq) : UpperSeq[i] = c]
      ELSE c

(***************************************************************************)
(* Classifier                                                              *)
(***************************************************************************)
BANNED ==
    {
      <<"e", "n", "h", "a", "n", "c", "e", "d">>,
      <<"e", "n", "h", "a", "n", "c", "e">>,
      <<"s", "i", "m", "p", "l", "e">>,
      <<"s", "i", "m", "p", "l", "i", "f", "i", "e", "d">>,
      <<"r", "e", "f", "a", "c", "t", "o", "r", "e", "d">>,
      <<"r", "e", "f", "a", "c", "t", "o", "r">>,
      <<"o", "p", "t", "i", "m", "i", "z", "e", "d">>,
      <<"o", "p", "t", "i", "m", "i", "z", "e">>,
      <<"a", "l", "t", "e", "r", "n", "a", "t", "e">>,
      <<"a", "l", "t", "e", "r", "n", "a", "t", "i", "v", "e">>,
      <<"a", "l", "t">>,
      <<"n", "e", "w">>,
      <<"f", "i", "n", "a", "l">>,
      <<"u", "p", "d", "a", "t", "e", "d">>,
      <<"r", "e", "w", "r", "i", "t", "e">>,
      <<"c", "o", "p", "y">>,
      <<"b", "a", "c", "k", "u", "p">>,
      <<"b", "a", "k">>,
      <<"t", "e", "m", "p">>,
      <<"t", "m", "p">>,
      <<"l", "e", "g", "a", "c", "y">>,
      <<"o", "l", "d">>
    }

\* /^v\d+$/.test(t)
isVersionTokenUnanchored(t) ==
    \E i \in 1..Len(t) : t[i] = "v" /\ i < Len(t) /\ t[i + 1] \in DigitChars

isVersionToken(t) ==
    /\ Len(t) >= 2
    /\ t[1] = "v"
    /\ \A k \in 2..Len(t) : t[k] \in DigitChars

\* basename.replace(/\.[^.]+$/, ""): the match starts at a dot that is followed,
\* up to the end of the string, by one or more characters none of which is a dot
StripExtension(basename) ==
    IF \E i \in 1..Len(basename) :
           /\ basename[i] = "."
           /\ i < Len(basename)
           /\ \A k \in (i + 1)..Len(basename) : basename[k] # "."
      THEN LET i == CHOOSE i \in 1..Len(basename) :
                       /\ basename[i] = "."
                       /\ i < Len(basename)
                       /\ \A k \in (i + 1)..Len(basename) : basename[k] # "."
           IN  SubSeq(basename, 1, i - 1)
      ELSE basename

\* stem.replace(/([a-z0-9])([A-Z])/g, "$1_$2"), scanning left to right
RECURSIVE CamelToSnake(_, _)
CamelToSnake(stem, i) ==
    IF i > Len(stem) THEN <<>>
    ELSE IF /\ i < Len(stem)
            /\ stem[i] \in LowerChars \cup DigitChars
            /\ stem[i + 1] \in UpperChars
      THEN <<stem[i], "_", stem[i + 1]>> \o CamelToSnake(stem, i + 2)
      ELSE <<stem[i]>> \o CamelToSnake(stem, i + 1)

LowerString(s) == [i \in 1..Len(s) |-> toLowerCase(s[i])]

\* snake.split(/[^a-z0-9]+/).filter(Boolean): cur is the piece being read
RECURSIVE SplitTokens(_, _, _)
SplitTokens(snake, i, cur) ==
    IF i > Len(snake)
      THEN IF cur = <<>> THEN <<>> ELSE <<cur>>
    ELSE IF snake[i] \in LowerChars \cup DigitChars
      THEN SplitTokens(snake, i + 1, Append(cur, snake[i]))
    ELSE IF cur = <<>>
      THEN SplitTokens(snake, i + 1, <<>>)
      ELSE <<cur>> \o SplitTokens(snake, i + 1, <<>>)

tokenize(basename) ==
    LET stem  == StripExtension(basename)
        snake == LowerString(CamelToSnake(stem, 1))
    IN  SplitTokens(snake, 1, <<>>)

\* path.basename (POSIX): trailing separators are dropped, then everything up
\* to and including the last remaining separator
basename(filePath) ==
    LET ends == {i \in 1..Len(filePath) : filePath[i] # "/"}
    IN  IF ends = {} THEN <<>>
        ELSE LET end    == CHOOSE i \in ends : \A k \in ends : k <= i
                 slashes == {i \in 1..end : filePath[i] = "/"}
                 start  == IF slashes = {} THEN 1
                           ELSE 1 + (CHOOSE i \in slashes : \A k \in slashes : k <= i)
             IN  SubSeq(filePath, start, end)

shouldBlockWholePath(filePath) ==
    LET tokens == tokenize(filePath)
    IN  \E n \in 1..Len(tokens) : tokens[n] \in BANNED \/ isVersionToken(tokens[n])

shouldBlockPath(filePath) ==
    LET base   == basename(filePath)
        tokens == tokenize(base)
    IN  \E n \in 1..Len(tokens) : tokens[n] \in BANNED \/ isVersionToken(tokens[n])


(***************************************************************************)
(* Bounds of the classifier runs                                           *)
(***************************************************************************)
MaxPathLen == 4
PathChars == {"o", "l", "d", "v", "2", "O", ".", "_", "/"}
Paths == UNION {[1..n -> PathChars] : n \in 0..MaxPathLen}

IdleClassifier == cPath = <<>> /\ cPhase = "idle" /\ cResult = FALSE
IdleScanner == sLines = <<>> /\ sPhase = "idle" /\ sOut = <<>>
IdleHook ==
    /\ tool = "none" /\ args = [present |-> FALSE] /\ client = "none" /\ pc = "idle"
    /\ newFiles = <<>> /\ classified = <<>> /\ toasts = <<>>
    /\ thrown = [kind |-> "none"] /\ rej = [active |-> FALSE]

(***************************************************************************)
(* One call of shouldBlockPath on an arbitrary path                        *)
(***************************************************************************)
InitClassify ==
    /\ cPath \in Paths
    /\ cPhase = "call"
    /\ cResult = FALSE
    /\ IdleScanner
    /\ IdleHook

Classify ==
    /\ cPhase = "call"
    /\ cResult' = shouldBlockPath(cPath)
    /\ cPhase' = "returned"
    /\ UNCHANGED <<cPath, svars, dvars>>

NextClassify == Classify

SpecClassify == InitClassify /\ [][NextClassify]_vars

(***************************************************************************)
(* Reference notions used to state the classifier's properties             *)
(***************************************************************************)
IsAlnum(c) == c \in LowerChars \cup UpperChars \cup DigitChars

\* a camelCase boundary lies between positions k and k + 1 of s
CamelBoundary(s, k) ==
    /\ k >= 1 /\ k < Len(s)
    /\ s[k] \in LowerChars \cup DigitChars
    /\ s[k + 1] \in UpperChars

\* length of b once its final extension (last dot and what follows it) is removed
StemLength(b) ==
    LET dots == {i \in 1..Len(b) : b[i] = "."}
    IN  IF dots = {} THEN Len(b)
        ELSE LET last == CHOOSE i \in dots : \A k \in dots : k <= i
             IN  IF last = Len(b) THEN Len(b) ELSE last - 1

\* tokens of the first n characters of b: the lowercased maximal runs of
\* letters and digits that contain no camelCase boundary
TokensOfPrefix(b, n) ==
    {LowerString(SubSeq(b, lo, hi)) : <<lo, hi>> \in
        {w \in (1..n) \X (1..n) :
            /\ w[1] <= w[2]
            /\ \A k \in w[1]..w[2] : IsAlnum(b[k])
            /\ \A k \in w[1]..(w[2] - 1) : ~CamelBoundary(b, k)
            /\ (w[1] = 1 \/ ~IsAlnum(b[w[1] - 1]) \/ CamelBoundary(b, w[1] - 1))
            /\ (w[2] = n \/ ~IsAlnum(b[w[2] + 1]) \/ CamelBoundary(b, w[2]))}}

IsVariantToken(t) ==
    \/ t \in BANNED
    \/ /\ Head(t) = "v"
       /\ Tail(t) # <<>>
       /\ \A k \in 1..Len(Tail(t)) : Tail(t)[k] \in DigitChars

\* the last non-empty segment of p (separators at the end of p are ignored)
LastNonEmptySegment(p) ==
    LET segs == {w \in (1..Len(p)) \X (1..Len(p)) :
                    /\ w[1] <= w[2]
                    /\ \A k \in w[1]..w[2] : p[k] # "/"
                    /\ (w[1] = 1 \/ p[w[1] - 1] = "/")
                    /\ \A k \in (w[2] + 1)..Len(p) : p[k] = "/"}
    IN  IF segs = {} THEN <<>>
        ELSE LET w == CHOOSE w \in segs : TRUE IN SubSeq(p, w[1], w[2])

\* what follows the last separator of p (empty when p ends in a separator)
AfterLastSeparator(p) ==
    LET slashes == {i \in 1..Len(p) : p[i] = "/"}
    IN  IF slashes = {} THEN p
        ELSE SubSeq(p, 1 + (CHOOSE i \in slashes : \A k \in slashes : k <= i), Len(p))

\* stripping the extension would leave nothing of b
ExtensionIsWholeName(b) ==
    /\ Len(b) >= 2
    /\ b[1] = "."
    /\ \A k \in 2..Len(b) : b[k] # "."

(***************************************************************************)
(* C1: shouldBlockPath returns true exactly when some token of the         *)
(* basename (final extension stripped, camelCase split, lowercased, split   *)
(* on non-alphanumeric runs) is a banned word or is "v" followed by one or  *)
(* more digits.                                                            *)
(***************************************************************************)
C1_ClassifierIffVariantToken ==
    cPhase = "returned" =>
        LET b == LastNonEmptySegment(cPath)
        IN  cResult = (\E t \in TokensOfPrefix(b, StemLength(b)) : IsVariantToken(t))

\* a mixed-case banned word is flagged, e.g. "Old" or "oOld"
C1_Witness ==
    /\ cPhase = "returned"
    /\ cResult
    /\ \E i \in 1..Len(cPath) : cPath[i] \in UpperChars
    /\ <<"o", "l", "d">> \in TokensOfPrefix(cPath, Len(cPath))

(***************************************************************************)
(* C8: only the final extension is stripped, and when the extension        *)
(* pattern would consume the whole basename (".bak", ".old") stripping is   *)
(* skipped, so the name keeps its token and a hidden file named by a banned *)
(* word is classified as a variant.                                        *)
(***************************************************************************)
C8_HiddenNameKeepsItsToken ==
    cPhase = "returned" =>
        LET b == basename(cPath)
        IN  /\ ~ExtensionIsWholeName(b) =>
                StripExtension(b) = SubSeq(b, 1, StemLength(b))
            /\ ExtensionIsWholeName(b) =>
                /\ StripExtension(b) = b
                /\ tokenize(b) # <<>>
                /\ cResult = (\E t \in TokensOfPrefix(b, Len(b)) : IsVariantToken(t))

(***************************************************************************)
(* C9: the result depends only on the final path segment, so a banned or   *)
(* version token in a directory segment never flags the path.  As stated,   *)
(* with the final segment being what follows the last separator:           *)
(***************************************************************************)
C9_OnlyTextAfterLastSeparator ==
    cPhase = "returned" =>
        /\ cResult = shouldBlockPath(AfterLastSeparator(cPath))
        /\ (\A t \in TokensOfPrefix(AfterLastSeparator(cPath),
                                    Len(AfterLastSeparator(cPath))) :
                ~IsVariantToken(t)) => ~cResult

\* C9 as amended: the result depends only on the last non-empty segment
\* (separators ending the path are ignored, as path.basename does); a token
\* in any segment before it never flags the path.
C9_OnlyLastNonEmptySegment ==
    cPhase = "returned" =>
        /\ cResult = shouldBlockPath(LastNonEmptySegment(cPath))
        /\ (\A t \in TokensOfPrefix(LastNonEmptySegment(cPath),
                                    Len(LastNonEmptySegment(cPath))) :
                ~IsVariantToken(t)) => ~cResult

\* a version-named directory in front of a clean file name, e.g. "v2/o"
C9_Witness ==
    /\ cPhase = "returned"
    /\ ~cResult
    /\ Len(cPath) >= 4
    /\ SubSeq(cPath, 1, 3) = <<"v", "2", "/">>
    /\ cPath[4] # "/"


(***************************************************************************)
(* Diff scanner                                                            *)
(***************************************************************************)
\* a line of the patch text: which anchored pattern it matches
DiffHeader(pathText) == [kind |-> "diff", path |-> pathText]    \* diff --git a/<path> b/<path>
NewFileMode == [kind |-> "newfile", path |-> <<>>]              \* new file mode <mode>
DevNull == [kind |-> "devnull", path |-> <<>>]                  \* --- /dev/null
PlusPath(pathText) == [kind |-> "plus", path |-> pathText]      \* +++ b/<path>
OldPath(pathText) == [kind |-> "minus", path |-> pathText]      \* --- a/<path>
Other == [kind |-> "other", path |-> <<>>]                      \* any other line

LookAhead == 8
PathWindow == 6

\* /^diff --git a\/.+ b\/(.+)$/.test(line)
IsDiffHeader(line) == line.kind = "diff"
\* /^new file mode /.test(lines[j])
IsNewFileMode(line) == line.kind = "newfile"
\* /^---\s+\/dev\/null$/.test(lines[j])
IsDevNull(line) == line.kind = "devnull"
\* /^\+\+\+\s+b\/(.+)$/.exec(lines[k]) matches
IsPlusPath(line) == line.kind = "plus"

\* out.add(x) on a Set kept in insertion order
SetAdd(out, x) ==
    IF \E n \in 1..Len(out) : out[n] = x THEN out ELSE Append(out, x)

\* last index of the loop "for (j = i + 1; j < Math.min(i + 8, lines.length); j++)",
\* lines being numbered from 1 here
LastLookAheadShort(i, n) == Min(i + LookAhead - 2, n)

LastLookAhead(i, n) == Min(i + LookAhead - 1, n)

\* last index of the loop "for (k = j; k < Math.min(j + 6, lines.length); k++)"
LastPathLine(j, n) == Min(j + PathWindow - 1, n)

\* the k loop: add the path of every "+++ b/<path>" line from k to last
RECURSIVE CollectPaths(_, _, _, _)
CollectPaths(lines, k, last, out) ==
    IF k > last THEN out
    ELSE IF IsPlusPath(lines[k])
      THEN CollectPaths(lines, k + 1, last, SetAdd(out, lines[k].path))
      ELSE CollectPaths(lines, k + 1, last, out)

\* the j loop: stop at the first marker line and collect from there
RECURSIVE ScanMarkers(_, _, _, _)
ScanMarkers(lines, j, last, out) ==
    IF j > last THEN out
    ELSE IF IsNewFileMode(lines[j])
      THEN CollectPaths(lines, j, LastPathLine(j, Len(lines)), out)
    ELSE IF IsDevNull(lines[j])
      THEN CollectPaths(lines, j, LastPathLine(j, Len(lines)), out)
      ELSE ScanMarkers(lines, j + 1, last, out)

\* the i loop
RECURSIVE ScanLines(_, _, _)
ScanLines(lines, i, out) ==
    IF i > Len(lines) THEN out
    ELSE IF IsDiffHeader(lines[i])
      THEN ScanLines(lines, i + 1,
                     ScanMarkers(lines, i + 1, LastLookAhead(i, Len(lines)), out))
      ELSE ScanLines(lines, i + 1, out)

\* parseNewFilesFromPatch for a string argument, given as its lines
parseNewFilesFromPatch(lines) == ScanLines(lines, 1, <<>>)

(***************************************************************************)
(* Bounds of the scanner runs: patch texts of at most MaxLines lines, at   *)
(* most MaxMarked of which are not "other" lines                           *)
(***************************************************************************)
MaxLines == 9
MaxMarked == 4
ScanPaths == {<<"a">>, <<"b">>}
MarkedLines ==
    {DiffHeader(<<>>), NewFileMode, DevNull} \cup {PlusPath(q) : q \in ScanPaths}

\* the patch text of n lines whose marked lines are those at the positions in at
PatchText(n, at, f) == [i \in 1..n |-> IF i \in at THEN f[i] ELSE Other]

(***************************************************************************)
(* One call of parseNewFilesFromPatch on an arbitrary patch text           *)
(***************************************************************************)
InitScan ==
    /\ \E n \in 1..MaxLines :
          \E at \in {a \in SUBSET (1..n) : Cardinality(a) <= MaxMarked} :
              \E f \in [at -> MarkedLines] : sLines = PatchText(n, at, f)
    /\ sPhase = "call"
    /\ sOut = <<>>
    /\ IdleClassifier
    /\ IdleHook

Scan ==
    /\ sPhase = "call"
    /\ sOut' = parseNewFilesFromPatch(sLines)
    /\ sPhase' = "returned"
    /\ UNCHANGED <<sLines, cvars, dvars>>

NextScan == Scan

SpecScan == InitScan /\ [][NextScan]_vars


(***************************************************************************)
(* Reference notions used to state the scanner's properties                *)
(***************************************************************************)
IsMarker(line) == IsNewFileMode(line) \/ IsDevNull(line)

Elements(q) == {q[n] : n \in 1..Len(q)}

NoDuplicates(q) == \A m, n \in 1..Len(q) : q[m] = q[n] => m = n

\* last line of the per-file block whose header is line i
BlockEnd(lines, i) ==
    LET later == {h \in (i + 1)..Len(lines) : IsDiffHeader(lines[h])}
    IN  IF later = {} THEN Len(lines)
        ELSE (CHOOSE h \in later : \A g \in later : h <= g) - 1

\* the "+++ b/<path>" paths of the per-file blocks that hold a new-file marker
AddedFiles(lines) ==
    {lines[k].path : k \in
        {k \in 1..Len(lines) :
            /\ IsPlusPath(lines[k])
            /\ \E i \in 1..Len(lines) :
                  /\ IsDiffHeader(lines[i])
                  /\ i < k /\ k <= BlockEnd(lines, i)
                  /\ \E m \in (i + 1)..BlockEnd(lines, i) : IsMarker(lines[m])}}

(***************************************************************************)
(* C6: every path parseNewFilesFromPatch returns is the "+++ b/<path>"     *)
(* path of a per-file block that itself holds a new-file marker; the path   *)
(* of a file the diff only modifies is never returned.                     *)
(***************************************************************************)
C6_OnlyAddedFiles ==
    sPhase = "returned" => Elements(sOut) \subseteq AddedFiles(sLines)

(***************************************************************************)
(* C10: for a header at line i, a marker on any of the next 8 lines and a  *)
(* "+++ b/<path>" line within the 6 lines starting at that marker put       *)
(* <path> in the result; each path appears once.                           *)
(***************************************************************************)
C10_AnyMarkerInNextEight ==
    sPhase = "returned" =>
        /\ NoDuplicates(sOut)
        /\ \A i \in 1..Len(sLines) :
              IsDiffHeader(sLines[i]) =>
                \A j \in (i + 1)..Min(i + 8, Len(sLines)) :
                    IsMarker(sLines[j]) =>
                      \A k \in j..Min(j + 5, Len(sLines)) :
                          IsPlusPath(sLines[k]) => sLines[k].path \in Elements(sOut)

\* C10 as amended: the marker is the first marker line among the next 7
\* lines (i+1 .. i+7); a "+++ b/<path>" line within the 6 lines starting at
\* that marker puts <path> in the result; each path appears once.
C10_FirstMarkerInNextSeven ==
    sPhase = "returned" =>
        /\ NoDuplicates(sOut)
        /\ \A i \in 1..Len(sLines) :
              IsDiffHeader(sLines[i]) =>
                \A j \in (i + 1)..Min(i + 7, Len(sLines)) :
                    (/\ IsMarker(sLines[j])
                     /\ \A h \in (i + 1)..(j - 1) : ~IsMarker(sLines[h])) =>
                      \A k \in j..Min(j + 5, Len(sLines)) :
                          IsPlusPath(sLines[k]) => sLines[k].path \in Elements(sOut)

\* the marker sits on the last line of the look-ahead and its path is found
C10_Witness ==
    /\ sPhase = "returned"
    /\ sOut # <<>>
    /\ \E i \in 1..Len(sLines) :
          /\ IsDiffHeader(sLines[i])
          /\ i + 7 < Len(sLines)
          /\ IsMarker(sLines[i + 7])
          /\ \A h \in (i + 1)..(i + 6) : ~IsMarker(sLines[h])
          /\ IsPlusPath(sLines[i + 8])
          /\ \A h \in 1..Len(sLines) : IsDiffHeader(sLines[h]) => h = i


(***************************************************************************)
(* The "tool.execute.before" hook and reject                               *)
(***************************************************************************)
\* JavaScript values reaching the hook: t is the value's type tag, v the
\* characters of a path string or the lines of a patch string
Undefined == [t |-> "undefined", v |-> <<>>]
Null == [t |-> "null", v |-> <<>>]
Number == [t |-> "number", v |-> <<>>]
String(x) == [t |-> "string", v |-> x]

\* typeof x === "string"
typeofStringLoose(x) == x.t \notin {"undefined", "null"}

typeofString(x) == x.t = "string"

\* a ?? b
Coalesce(a, b) == IF a.t \in {"undefined", "null"} THEN b ELSE a

\* output?.args?.<key>
Arg(a, key) == IF a.present THEN a[key] ELSE Undefined

\* output?.args?.filePath ?? output?.args?.path
WriteTargetNoFallback(a) == Arg(a, "filePath")

WriteTarget(a) == Coalesce(Arg(a, "filePath"), Arg(a, "path"))

\* output?.args?.patch ?? output?.args?.content
PatchArgument(a) == Coalesce(Arg(a, "patch"), Arg(a, "content"))

\* the message reject builds from its two arguments
Guidance == "update the existing file instead of creating a variant; produce an in-place edit"
NoMessage == [via |-> "", path |-> <<>>, guidance |-> ""]
RejectMessage(filePath, via) == [via |-> via, path |-> filePath, guidance |-> Guidance]

NotThrown == [kind |-> "none", message |-> NoMessage]
ErrorOf(msg) == [kind |-> "Error", message |-> msg]
\* what path.basename and patchText.split raise on a value that is no string,
\* and what reading client.tui.showToast raises when there is no client.tui
TypeError == [kind |-> "TypeError", message |-> NoMessage]
\* what a failing showToast throws or rejects with
ToastFailure == [kind |-> "ToastFailure", message |-> NoMessage]

NoReject == [active |-> FALSE, filePath |-> <<>>, via |-> ""]
RejectCall(filePath, via) == [active |-> TRUE, filePath |-> filePath, via |-> via]

\* try { await client.tui.showToast(...) } catch (_) {}: what reject does
\* with a fault of the notification attempt
CatchToastFaultRethrow(fault) == [pc |-> "threw", thrown |-> fault]

CatchToastFault(fault) == [pc |-> "throw", thrown |-> NotThrown]

\* throw new Error(msg): how reject completes
RejectCompletionNoThrow(msg) == [threw |-> FALSE, error |-> NotThrown]

RejectCompletion(msg) == [threw |-> TRUE, error |-> ErrorOf(msg)]

\* if (tool === "write") { ... }
HookWrite ==
    /\ pc = "start"
    /\ tool = "write"
    /\ LET p == WriteTarget(args)
       IN  IF ~typeofString(p)
             THEN /\ pc' = "patch"
                  /\ UNCHANGED <<classified, thrown, rej>>
           ELSE IF p.t # "string"
             THEN /\ pc' = "threw"
                  /\ thrown' = TypeError
                  /\ UNCHANGED <<classified, rej>>
           ELSE /\ classified' = Append(classified, p.v)
                /\ IF shouldBlockPath(p.v)
                     THEN pc' = "reject" /\ rej' = RejectCall(p.v, "write")
                     ELSE pc' = "patch" /\ UNCHANGED rej
                /\ UNCHANGED thrown
    /\ UNCHANGED <<tool, args, client, newFiles, toasts, cvars, svars>>

HookNotWrite ==
    /\ pc = "start"
    /\ tool # "write"
    /\ pc' = "patch"
    /\ UNCHANGED <<tool, args, client, newFiles, classified, toasts, thrown, rej,
                   cvars, svars>>

\* if (tool === "patch") { const newFiles = parseNewFilesFromPatch(patchText); ...
HookPatch ==
    /\ pc = "patch"
    /\ tool = "patch"
    /\ LET patchText == PatchArgument(args)
       IN  IF ~typeofString(patchText)
             THEN /\ newFiles' = <<>>
                  /\ pc' = "loop"
                  /\ UNCHANGED thrown
           ELSE IF patchText.t # "string"
             THEN /\ pc' = "threw"
                  /\ thrown' = TypeError
                  /\ UNCHANGED newFiles
           ELSE /\ newFiles' = parseNewFilesFromPatch(patchText.v)
                /\ pc' = "loop"
                /\ UNCHANGED thrown
    /\ UNCHANGED <<tool, args, client, classified, toasts, rej, cvars, svars>>

HookNotPatch ==
    /\ pc = "patch"
    /\ tool # "patch"
    /\ pc' = "returned"
    /\ UNCHANGED <<tool, args, client, newFiles, classified, toasts, thrown, rej,
                   cvars, svars>>

\* for (const p of newFiles) { if (shouldBlockPath(p)) await reject(p, "patch(add)") }
LoopClassify ==
    /\ pc = "loop"
    /\ newFiles # <<>>
    /\ classified' = Append(classified, Head(newFiles))
    /\ IF shouldBlockPath(Head(newFiles))
         THEN /\ pc' = "reject"
              /\ rej' = RejectCall(Head(newFiles), "patch(add)")
              /\ UNCHANGED newFiles
         ELSE /\ newFiles' = Tail(newFiles)
              /\ UNCHANGED <<pc, rej>>
    /\ UNCHANGED <<tool, args, client, toasts, thrown, cvars, svars>>

LoopEnd ==
    /\ pc = "loop"
    /\ newFiles = <<>>
    /\ pc' = "returned"
    /\ UNCHANGED <<tool, args, client, newFiles, classified, toasts, thrown, rej,
                   cvars, svars>>

\* reject, up to the await: client.tui.showToast({ message: msg, variant: "error" })
RejectToast ==
    /\ pc = "reject"
    /\ LET msg == RejectMessage(rej.filePath, rej.via)
       IN  IF client = "noTui"
             THEN /\ pc' = CatchToastFault(TypeError).pc
                  /\ thrown' = CatchToastFault(TypeError).thrown
                  /\ UNCHANGED toasts
           ELSE /\ toasts' = Append(toasts, [message |-> msg, variant |-> "error"])
                /\ IF client = "throws"
                     THEN /\ pc' = CatchToastFault(ToastFailure).pc
                          /\ thrown' = CatchToastFault(ToastFailure).thrown
                     ELSE /\ pc' = "await"
                          /\ UNCHANGED thrown
    /\ UNCHANGED <<tool, args, client, newFiles, classified, rej, cvars, svars>>

\* the promise showToast returned settles; reject resumes after the await
ToastSettle ==
    /\ pc = "await"
    /\ client \in {"resolves", "rejects"}
    /\ IF client = "rejects"
         THEN /\ pc' = CatchToastFault(ToastFailure).pc
              /\ thrown' = CatchToastFault(ToastFailure).thrown
         ELSE /\ pc' = "throw"
              /\ UNCHANGED thrown
    /\ UNCHANGED <<tool, args, client, newFiles, classified, toasts, rej, cvars, svars>>

\* throw new Error(msg); the hook's await of reject passes it on to the host
RejectThrow ==
    /\ pc = "throw"
    /\ LET done == RejectCompletion(RejectMessage(rej.filePath, rej.via))
       IN  IF done.threw
             THEN /\ pc' = "threw"
                  /\ thrown' = done.error
                  /\ UNCHANGED <<newFiles, rej>>
           ELSE /\ rej' = NoReject
                /\ UNCHANGED thrown
                /\ IF rej.via = "write"
                     THEN pc' = "patch" /\ UNCHANGED newFiles
                     ELSE pc' = "loop" /\ newFiles' = Tail(newFiles)
    /\ UNCHANGED <<tool, args, client, classified, toasts, cvars, svars>>

(***************************************************************************)
(* Bounds of the hook runs                                                 *)
(***************************************************************************)
MaxBlocks == 2
ToolKinds == {"write", "patch", "read", "list", "edit", "undefined"}
\* showToast resolves, rejects, throws at the call, does not exist, never settles
ClientKinds == {"resolves", "rejects", "throws", "noTui", "hangs"}

SimpleUtils == <<"s", "r", "c", "/", "s", "i", "m", "p", "l", "e", "_", "u", "t", "i", "l", "s", ".", "j", "s">>
Utils == <<"s", "r", "c", "/", "u", "t", "i", "l", "s", ".", "j", "s">>
NewEnhanced == <<"a", "/", "n", "e", "w", "_", "e", "n", "h", "a", "n", "c", "e", "d", ".", "p", "y">>
Normal == <<"b", "/", "n", "o", "r", "m", "a", "l", ".", "p", "y">>
HookPaths == {SimpleUtils, Utils, NewEnhanced, Normal}

PathValues == {Undefined, Null, Number} \cup {String(q) : q \in HookPaths}

\* per-file blocks as git writes them
AddedBlock(q) == <<DiffHeader(q), NewFileMode, Other, DevNull, PlusPath(q), Other>>
EmptyAddedBlock(q) == <<DiffHeader(q), NewFileMode, Other>>
ModifiedBlock(q) == <<DiffHeader(q), Other, OldPath(q), PlusPath(q), Other>>
Blocks ==
    {<<Other>>} \cup {AddedBlock(q) : q \in HookPaths}
                \cup {EmptyAddedBlock(q) : q \in HookPaths}
                \cup {ModifiedBlock(q) : q \in HookPaths}

RECURSIVE Concat(_)
Concat(bs) == IF bs = <<>> THEN <<>> ELSE Head(bs) \o Concat(Tail(bs))

\* the lines of a patch text made of the blocks bs ("" splits into one empty line)
TextOf(bs) == IF bs = <<>> THEN <<Other>> ELSE Concat(bs)

NoArgs ==
    [present |-> FALSE, filePath |-> Undefined, path |-> Undefined,
     patch |-> Undefined, content |-> Undefined]

NotStringValues == {Undefined, Null, Number}

InitHook ==
    /\ tool \in ToolKinds
    /\ client \in ClientKinds
    /\ \/ args = NoArgs
       \/ \E f \in PathValues, g \in PathValues :
             args = [present |-> TRUE, filePath |-> f, path |-> g,
                     patch |-> Undefined, content |-> Undefined]
       \/ \E n \in 0..MaxBlocks : \E bs \in [1..n -> Blocks] :
             \E other \in NotStringValues, first \in BOOLEAN :
                args = [present |-> TRUE, filePath |-> Undefined, path |-> Undefined,
                        patch |-> IF first THEN String(TextOf(bs)) ELSE other,
                        content |-> IF first THEN other ELSE String(TextOf(bs))]
    /\ pc = "start"
    /\ newFiles = <<>>
    /\ classified = <<>>
    /\ toasts = <<>>
    /\ thrown = NotThrown
    /\ rej = NoReject
    /\ IdleClassifier
    /\ IdleScanner

Next ==
    \/ HookWrite
    \/ HookNotWrite
    \/ HookPatch
    \/ HookNotPatch
    \/ LoopClassify
    \/ LoopEnd
    \/ RejectToast
    \/ ToastSettle
    \/ RejectThrow

Spec == InitHook /\ [][Next]_vars


(***************************************************************************)
(* Reference notions used to state the hook's properties                   *)
(***************************************************************************)
\* the write target is supplied as a string under filePath, or under path
\* when filePath is absent
SuppliedTarget ==
    IF args.present /\ args.filePath.t = "string" THEN args.filePath
    ELSE IF args.present /\ args.filePath.t = "undefined" /\ args.path.t = "string"
      THEN args.path
      ELSE Undefined

\* the paths the scanner finds in the patch argument, in insertion order
ScannedFiles ==
    IF PatchArgument(args).t = "string"
      THEN parseNewFilesFromPatch(PatchArgument(args).v)
      ELSE <<>>

FlaggedAt(files) == {n \in 1..Len(files) : shouldBlockPath(files[n])}

FirstFlagged(files) == CHOOSE n \in FlaggedAt(files) : \A m \in FlaggedAt(files) : n <= m

InReject == pc \in {"reject", "await", "throw", "threw"}

(***************************************************************************)
(* C2: for tool "write" with the target path given as a string under       *)
(* filePath, or under path when filePath is absent, the hook throws exactly *)
(* when shouldBlockPath flags the path; the message carries the path, the   *)
(* tool kind and the in-place-edit guidance; otherwise it returns normally. *)
(***************************************************************************)
C2_WriteRejectedIffFlagged ==
    (tool = "write" /\ SuppliedTarget.t = "string") =>
        LET flagged == shouldBlockPath(SuppliedTarget.v)
        IN  /\ flagged => pc \in {"start"} \/ InReject
            /\ ~flagged => pc \in {"start", "patch", "returned"} /\ thrown = NotThrown
            /\ pc = "threw" =>
                  /\ thrown.kind = "Error"
                  /\ thrown.message.path = SuppliedTarget.v
                  /\ thrown.message.via = "write"
                  /\ thrown.message.guidance = Guidance

\* a flagged path given under the fallback key is rejected
C2_Witness ==
    /\ tool = "write"
    /\ args.present /\ args.filePath = Undefined /\ args.path = String(SimpleUtils)
    /\ pc = "threw"
    /\ thrown.message.path = SimpleUtils

C4_NoSpuriousFailure ==
    /\ thrown # NotThrown =>
          /\ thrown.kind = "Error"
          /\ tool \in {"write", "patch"}
          /\ shouldBlockPath(thrown.message.path)
          /\ pc = "threw"
    /\ pc = "threw" => thrown # NotThrown
    /\ tool \notin {"write", "patch"} =>
          /\ classified = <<>>
          /\ toasts = <<>>
          /\ pc \in {"start", "patch", "returned"}
    /\ (/\ tool = "patch"
        /\ \/ PatchArgument(args).t # "string"
           \/ \A n \in 1..Len(PatchArgument(args).v) :
                  ~IsDiffHeader(PatchArgument(args).v[n])) =>
          /\ newFiles = <<>>
          /\ classified = <<>>
          /\ pc \in {"start", "patch", "loop", "returned"}

\* a patch argument that is a number: no files, normal return
C4_Witness ==
    /\ tool = "patch"
    /\ PatchArgument(args).t = "number"
    /\ pc = "returned"
    /\ thrown = NotThrown

(***************************************************************************)
(* C5: when a path is flagged and showToast throws, rejects or does not    *)
(* exist, the fault is swallowed and the hook still throws the rejection    *)
(* with the message it would carry had the notification succeeded.         *)
(***************************************************************************)
C5_ToastFaultSwallowed ==
    (rej.active /\ client \in {"throws", "rejects", "noTui"}) =>
        /\ InReject
        /\ thrown.kind \in {"none", "Error"}
        /\ pc = "threw" => thrown = ErrorOf(RejectMessage(rej.filePath, rej.via))
        /\ pc # "threw" => thrown = NotThrown /\ ENABLED Next

\* there is no client.tui and the rejection is thrown all the same
C5_Witness ==
    /\ client = "noTui"
    /\ rej.active
    /\ pc = "threw"
    /\ thrown = ErrorOf(RejectMessage(rej.filePath, rej.via))
    /\ toasts = <<>>

(***************************************************************************)
(* C7: the notification does not block: once a path is flagged the         *)
(* rejection is eventually thrown, also when showToast never settles.  So   *)
(* a flagged invocation that has not thrown yet always has a step left to   *)
(* take: it is never left waiting on the notification.                     *)
(***************************************************************************)
C7_RejectionNeverBlocked == (rej.active /\ pc # "threw") => ENABLED Next

=============================================================================
